---- MODULE Spec2Model ----
(***************************************************************************)
(* A model of pauliopt's Pauli gadget / Pauli polynomial code:             *)
(*   pauli_gadget.py      find_minimal_cx_assignment, PauliGadget          *)
(*   pauli_polynomial.py  PauliPolynomial, simplify_pauli_polynomial       *)
(*   synth/steiner_gray_nc.py  pauli_polynomial_steiner_gray_nc            *)
(* Qubits and gadget (column) indices are 0-based as in the source; Python *)
(* lists are sequences.  Angles are integers in units of pi.               *)
(***************************************************************************)
EXTENDS FiniteSets, Integers, Sequences, TLC

VARIABLES
    arch,        \* the topology: a set of couplings {u, v}
    nq,          \* number of qubits of the topology / gadget
    gadget,      \* the PauliGadget at hand: [angle, paulis]
    pc,          \* position of the running operation
    column,      \* find_minimal_cx_assignment: the binary indicator vector
    mst,         \* find_minimal_cx_assignment: mst_branches
    pending,     \* find_minimal_cx_assignment: incident[q] still to iterate
    queue,       \* find_minimal_cx_assignment: the BFS deque
    visited,     \* find_minimal_cx_assignment: visited
    cnot_ladder, \* find_minimal_cx_assignment: cnot_ladder
    q0,          \* find_minimal_cx_assignment: the root
    circ,        \* the PauliCircuit being built: a sequence of gates
    polys,       \* PauliPolynomial objects: [num_qubits, pauli_gadgets]
    gadget_objects, \* PauliGadget objects [angle, paulis]: paulis is the id
                 \* of a list; pauli_gadgets lists hold the objects' ids
    pauli_lists, \* the list objects that gadgets keep as self.paulis
    raised,      \* whether the last PauliPolynomial operation raised
    spc,         \* simplify_pauli_polynomial: position
    pp_in,       \* simplify_pauli_polynomial: the gadgets of the argument pp
    remaining_poly, \* simplify_pauli_polynomial: remaining_poly
    converged,   \* simplify_pauli_polynomial / propagate_phase_gadegts: converged
    idx,         \* propagate_phase_gadegts: the loop index
    run,         \* which application of simplify_pauli_polynomial is running
    out1,        \* gadgets of simplify_pauli_polynomial(pp)
    out2,        \* gadgets of simplify_pauli_polynomial(simplify_pauli_polynomial(pp))
    pp,          \* synthesis: the working polynomial (its gadgets)
    pp0,         \* synthesis: the gadgets of the polynomial as passed in
    stack,       \* synthesis: the calls still to run, innermost first
    perm_gadgets, \* synthesis: perm_gadgets
    circ_out,    \* synthesis: the gates of the output circuit emitted so far
    appended,    \* synthesis: gates the last call appended before recursing
    propagated,  \* synthesis: pp.propagate calls of the last call
    hist,        \* synthesis: per column, the gates appended by calls using it
    last,        \* synthesis: the call that ran last
    calls,       \* synthesis: the calls that the call that ran last makes
    status,      \* synthesis: "running", "returned" or the exception raised
    leg_cache,   \* two_qubit_count: the dictionary the calls share
    own_cache,   \* two_qubit_count: the dictionary of a call given none
    shared,      \* two_qubit_count: whether the call was given leg_cache
    called_by,   \* two_qubit_count: "gadget" (called directly) or "polynomial"
    todo,        \* PauliPolynomial.two_qubit_count: gadgets still to count
    counted,     \* PauliPolynomial.two_qubit_count: col_id of those counted
    two_qubit_total, \* PauliPolynomial.two_qubit_count: count
    cnot_amount  \* PauliGadget.two_qubit_count: the value returned

topoVars == <<arch, nq>>
ladderVars == <<gadget, pc, column, mst, pending, queue, visited, cnot_ladder,
                q0, circ>>
polyVars == <<polys, gadget_objects, pauli_lists, raised>>
simpVars == <<spc, pp_in, remaining_poly, converged, idx, run, out1, out2>>
synthVars == <<pp, pp0, stack, perm_gadgets, circ_out, appended, propagated,
               hist, last, calls, status>>
countVars == <<leg_cache, own_cache, shared, called_by, todo, counted,
               two_qubit_total, cnot_amount>>
vars == <<topoVars, ladderVars, polyVars, simpVars, synthVars, countVars>>

----------------------------------------------------------------------------
(* Bounds *)
LadderQubits == 4
MaxAngle == 2
PolyQubits == 2
MaxPolyGadgets == 2
MaxGadgetObjects == 2
SimpQubits == 2
MaxSimpGadgets == 3
MaxSimpAngle == 3
SynthQubits == 3
SynthGadgets == 3
SynthCells == 6
CountQubits == 3
MaxCountGadgets == 2

(* Pauli values (pauliopt.pauli.utils.Pauli) *)
I == "I"
X == "X"
Y == "Y"
Z == "Z"
Pauli == {I, X, Y, Z}

Qubits(n) == 0 .. (n - 1)

Reverse(s) == [i \in 1 .. Len(s) |-> s[Len(s) + 1 - i]]

Range(s) == {s[i] : i \in 1 .. Len(s)}

----------------------------------------------------------------------------
(* Topology service: couplings, distances, shortest paths *)

Couplings(n) == {{u, v} : u, v \in Qubits(n)} \ {{u} : u \in Qubits(n)}

Neighbours(E, q) == {v \in UNION E : {q, v} \in E}

RECURSIVE Ball(_, _, _)
Ball(E, u, k) ==
    IF k = 0 THEN {u}
    ELSE LET B == Ball(E, u, k - 1)
         IN  B \cup UNION {Neighbours(E, w) : w \in B}

IsConnected(E, n) == Ball(E, 0, n) = Qubits(n)

Topologies(n) == {E \in SUBSET Couplings(n) : IsConnected(E, n)}

\* Topology.dist(u, v): length of a shortest path
dist(E, u, v) ==
    CHOOSE k \in 0 .. Cardinality(E) :
        /\ v \in Ball(E, u, k)
        /\ k > 0 => v \notin Ball(E, u, k - 1)

\* Topology.shortest_path(u, v) is one of the shortest paths from u to v
ShortestPaths(E, u, v) ==
    LET d == dist(E, u, v)
    IN  {p \in [1 .. d + 1 -> UNION E \cup {u}] :
            /\ p[1] = u
            /\ p[d + 1] = v
            /\ \A i \in 1 .. d : {p[i], p[i + 1]} \in E}

----------------------------------------------------------------------------
(* Circuit gates (PauliCircuit is an append-only list of gates) *)

Gate1(g, q) == [g |-> g, q |-> q, t |-> -1, ang |-> 0]
CXGate(c, t) == [g |-> "cx", q |-> c, t |-> t, ang |-> 0]
RZGate(ang, q) == [g |-> "rz", q |-> q, t |-> -1, ang |-> ang]
PhaseGate(ang) == [g |-> "global_phase", q |-> -1, t |-> -1, ang |-> ang]

----------------------------------------------------------------------------
(* pauli_gadget.py: decompose_cnot_ladder_z *)

RECURSIVE LadderLoop(_, _, _)
LadderLoop(shortest_path, i, prev) ==
    IF i > Len(shortest_path) - 1 THEN <<>>
    ELSE << <<shortest_path[i], prev>>, <<prev, shortest_path[i]>> >>
         \o LadderLoop(shortest_path, i + 1, shortest_path[i])

decompose_unreversed(ctrl, trg, shortest_path) ==
    LadderLoop(shortest_path, 2, ctrl)
    \o << <<shortest_path[Len(shortest_path) - 1], trg>> >>

decompose_direct(ctrl, trg, shortest_path) ==
    Reverse(LadderLoop(shortest_path, 2, ctrl) \o << <<ctrl, trg>> >>)

decompose_cnot_ladder_z(ctrl, trg, shortest_path) ==
    Reverse(LadderLoop(shortest_path, 2, ctrl)
            \o << <<shortest_path[Len(shortest_path) - 1], trg>> >>)

----------------------------------------------------------------------------
(* pauli_gadget.py: find_minimal_cx_assignment *)

Active_all(col) == DOMAIN col

Active(col) == {q \in DOMAIN col : col[q] # 0}

\* np.argmax(column): the first index holding the maximum
argmax(col) ==
    IF Active(col) = {} THEN 0
    ELSE CHOOSE q \in Active(col) : \A r \in Active(col) : q <= r

\* G: an edge between every two active qubits, weight 4 * dist - 2
SteinerEdges(col) == {{u, v} : u, v \in Active(col)} \ {{u} : u \in Active(col)}

weight(E, e) ==
    LET u == CHOOSE x \in e : TRUE
        v == CHOOSE x \in e : x # u
    IN  4 * dist(E, u, v) - 2

RECURSIVE TotalWeight(_, _)
TotalWeight(E, T) ==
    IF T = {} THEN 0
    ELSE LET e == CHOOSE x \in T : TRUE
         IN  weight(E, e) + TotalWeight(E, T \ {e})

IsSpanningTree(T, nodes) ==
    /\ Cardinality(T) = (IF nodes = {} THEN 0 ELSE Cardinality(nodes) - 1)
    /\ \A u \in nodes : nodes \subseteq Ball(T, u, Cardinality(nodes))

all_edges(E, col) == {SteinerEdges(col)}

\* nx.minimum_spanning_edges(G, algorithm="prim"): a minimum spanning tree of
\* the active qubits (inactive qubits are isolated nodes of G)
MinimumSpanningTrees(E, col) ==
    LET trees == {T \in SUBSET SteinerEdges(col) : IsSpanningTree(T, Active(col))}
    IN  {T \in trees : \A S \in trees : TotalWeight(E, T) <= TotalWeight(E, S)}

\* incident[q]: the (tail, head) pairs of the tree edges at q
incident(T, q) == {<<q, h>> : h \in {v \in UNION T : {q, v} \in T}}

column_binary(paulis) == [q \in DOMAIN paulis |-> IF paulis[q] = I THEN 0 ELSE 1]

\* lines 27-50: build G, the spanning tree, pick the root, start the BFS
StartFindMinimal(col) ==
    /\ column' = col
    /\ \E T \in MinimumSpanningTrees(arch, col) : mst' = T
    /\ q0' = argmax(col)
    /\ visited' = {}
    /\ queue' = <<argmax(col)>>
    /\ pending' = {}
    /\ cnot_ladder' = <<>>

\* lines 51-53: q = queue.popleft(); visited.add(q)
BfsPop ==
    /\ pc = "bfs"
    /\ pending = {}
    /\ queue # <<>>
    /\ visited' = visited \cup {Head(queue)}
    /\ pending' = incident(mst, Head(queue))
    /\ queue' = Tail(queue)
    /\ UNCHANGED <<gadget, pc, column, mst, cnot_ladder, q0, circ>>
    /\ UNCHANGED <<topoVars, polyVars, simpVars, synthVars, countVars>>

\* lines 54-57: one iteration of "for tail, head in incident[q]"
BfsEdge ==
    /\ pc = "bfs"
    /\ \E e \in pending :
        /\ pending' = pending \ {e}
        /\ IF e[2] \notin visited
           THEN \E p \in ShortestPaths(arch, e[2], e[1]) :
                   /\ cnot_ladder' = cnot_ladder
                                     \o decompose_cnot_ladder_z(e[2], e[1], p)
                   /\ queue' = Append(queue, e[2])
           ELSE UNCHANGED <<cnot_ladder, queue>>
    /\ UNCHANGED <<gadget, pc, column, mst, visited, q0, circ>>
    /\ UNCHANGED <<topoVars, polyVars, simpVars, synthVars, countVars>>

----------------------------------------------------------------------------
(* pauli_gadget.py: PauliGadget.to_circuit *)

RECURSIVE BasisGates(_, _, _, _)
BasisGates(paulis, n, pauli_idx, ygate) ==
    IF pauli_idx >= n THEN <<>>
    ELSE (IF paulis[pauli_idx] = X THEN <<Gate1("h", pauli_idx)>>
          ELSE IF paulis[pauli_idx] = Y THEN <<Gate1(ygate, pauli_idx)>>
          ELSE <<>>)
         \o BasisGates(paulis, n, pauli_idx + 1, ygate)

CXGates(ladder) == [i \in 1 .. Len(ladder) |-> CXGate(ladder[i][1], ladder[i][2])]

\* lines 161-173: the all-identity gadget is a global phase; otherwise the
\* ladder is computed first
ToCircuitCall ==
    /\ pc = "idle"
    /\ IF \A q \in Qubits(nq) : gadget.paulis[q] = I
       THEN /\ circ' = <<PhaseGate(gadget.angle)>>
            /\ pc' = "done"
            /\ UNCHANGED <<column, mst, pending, queue, visited, cnot_ladder, q0>>
       ELSE /\ StartFindMinimal(column_binary(gadget.paulis))
            /\ pc' = "bfs"
            /\ UNCHANGED circ
    /\ UNCHANGED gadget
    /\ UNCHANGED <<topoVars, polyVars, simpVars, synthVars, countVars>>

to_circuit_same_undo(paulis, n, angle, ladder, root) ==
    BasisGates(paulis, n, 0, "v")
    \o (IF Len(ladder) > 0
        THEN CXGates(Reverse(ladder)) \o <<RZGate(angle, root)>> \o CXGates(ladder)
        ELSE <<RZGate(angle, argmax(column_binary(paulis)))>>)
    \o BasisGates(paulis, n, 0, "v")

\* lines 174-209, given the ladder and root of find_minimal_cx_assignment
to_circuit(paulis, n, angle, ladder, root) ==
    BasisGates(paulis, n, 0, "v")
    \o (IF Len(ladder) > 0
        THEN CXGates(Reverse(ladder)) \o <<RZGate(angle, root)>> \o CXGates(ladder)
        ELSE <<RZGate(angle, argmax(column_binary(paulis)))>>)
    \o BasisGates(paulis, n, 0, "vdg")

\* find_minimal_cx_assignment returns (line 58) and to_circuit finishes
ToCircuitReturn ==
    /\ pc = "bfs"
    /\ pending = {}
    /\ queue = <<>>
    /\ circ' = to_circuit(gadget.paulis, nq, gadget.angle, cnot_ladder, q0)
    /\ pc' = "done"
    /\ UNCHANGED <<gadget, column, mst, pending, queue, visited, cnot_ladder, q0>>
    /\ UNCHANGED <<topoVars, polyVars, simpVars, synthVars, countVars>>

TopologyIdle ==
    /\ nq = 0
    /\ arch = {}

LadderIdle ==
    /\ gadget = [angle |-> 0, paulis |-> <<>>]
    /\ pc = "off"
    /\ column = <<>>
    /\ mst = {}
    /\ pending = {}
    /\ queue = <<>>
    /\ visited = {}
    /\ cnot_ladder = <<>>
    /\ q0 = 0
    /\ circ = <<>>

SynthIdle ==
    /\ pp = <<>>
    /\ pp0 = <<>>
    /\ stack = <<>>
    /\ perm_gadgets = <<>>
    /\ circ_out = <<>>
    /\ appended = <<>>
    /\ propagated = <<>>
    /\ hist = <<>>
    /\ last = <<>>
    /\ calls = <<>>
    /\ status = "off"

LadderInit ==
    /\ nq = LadderQubits
    /\ arch \in Topologies(LadderQubits)
    /\ gadget \in [angle : 1 .. MaxAngle, paulis : [Qubits(LadderQubits) -> Pauli]]
    /\ pc = "idle"
    /\ column = [q \in Qubits(LadderQubits) |-> 0]
    /\ mst = {}
    /\ pending = {}
    /\ queue = <<>>
    /\ visited = {}
    /\ cnot_ladder = <<>>
    /\ q0 = 0
    /\ circ = <<>>



----------------------------------------------------------------------------
(* clifford_gates.py: the Clifford gates and their conjugation rules *)

H(q) == [kind |-> "H", q |-> q, t |-> -1]
V(q) == [kind |-> "V", q |-> q, t |-> -1]
CX(c, t) == [kind |-> "CX", q |-> c, t |-> t]

\* conjugation rules: the new letter(s) and the sign picked up by the angle
HRule(p) ==
    CASE p = X -> <<Z, 1>>
      [] p = Y -> <<Y, -1>>
      [] p = Z -> <<X, 1>>
      [] OTHER -> <<I, 1>>

VRule(p) ==
    CASE p = X -> <<X, 1>>
      [] p = Y -> <<Z, -1>>
      [] p = Z -> <<Y, 1>>
      [] OTHER -> <<I, 1>>

CXRule(pctrl, ptrg) ==
    CASE pctrl = X /\ ptrg = X -> <<X, I, 1>>
      [] pctrl = X /\ ptrg = Y -> <<Y, Z, 1>>
      [] pctrl = X /\ ptrg = Z -> <<Y, Y, -1>>
      [] pctrl = X /\ ptrg = I -> <<X, X, 1>>
      [] pctrl = Y /\ ptrg = X -> <<Y, I, 1>>
      [] pctrl = Y /\ ptrg = Y -> <<X, Z, -1>>
      [] pctrl = Y /\ ptrg = Z -> <<X, Y, 1>>
      [] pctrl = Y /\ ptrg = I -> <<Y, X, 1>>
      [] pctrl = Z /\ ptrg = X -> <<Z, X, 1>>
      [] pctrl = Z /\ ptrg = Y -> <<I, Y, 1>>
      [] pctrl = Z /\ ptrg = Z -> <<I, Z, 1>>
      [] pctrl = Z /\ ptrg = I -> <<Z, I, 1>>
      [] pctrl = I /\ ptrg = X -> <<I, X, 1>>
      [] pctrl = I /\ ptrg = Y -> <<Z, Y, 1>>
      [] pctrl = I /\ ptrg = Z -> <<Z, Z, 1>>
      [] OTHER -> <<I, I, 1>>

\* gate.propagate_pauli(gadget)
propagate_pauli(gate, g) ==
    IF gate.kind = "CX"
    THEN LET r == CXRule(g.paulis[gate.q], g.paulis[gate.t])
         IN  [angle |-> g.angle * r[3],
              paulis |-> [g.paulis EXCEPT ![gate.q] = r[1], ![gate.t] = r[2]]]
    ELSE LET r == IF gate.kind = "H" THEN HRule(g.paulis[gate.q])
                  ELSE VRule(g.paulis[gate.q])
         IN  [angle |-> g.angle * r[2],
              paulis |-> [g.paulis EXCEPT ![gate.q] = r[1]]]

----------------------------------------------------------------------------
(* pauli_gadget.py: PauliGadget; pauli_polynomial.py: PauliPolynomial *)

\* PauliGadget.__len__
GadgetLen(g) == Cardinality(DOMAIN g.paulis)

\* PauliGadget.commutes (the lengths are equal)
commutes(g1, g2) ==
    LET mismatch == {q \in DOMAIN g1.paulis \cap DOMAIN g2.paulis :
                        /\ g1.paulis[q] # g2.paulis[q]
                        /\ g1.paulis[q] # I
                        /\ g2.paulis[q] # I}
    IN  Cardinality(mismatch) % 2 = 0

PolyIds == {"a", "b"}

GadgetsOfLen(k) == [angle : {1}, paulis : [Qubits(k) -> Pauli]]

AnyGadget == UNION {GadgetsOfLen(k) : k \in 1 .. PolyQubits}

\* the PauliGadget objects constructed so far, by identity
GadgetIds == 1 .. Len(gadget_objects)

\* the list objects constructed so far, by identity
ListIds == 1 .. Len(pauli_lists)

\* gadget.paulis of object o: the letters of the list it keeps
PaulisOf(o) == pauli_lists[gadget_objects[o].paulis]

\* the gadgets of polynomial p, in order
GadgetsOf(p) ==
    [i \in 1 .. Len(polys[p].pauli_gadgets) |->
        [angle |-> gadget_objects[polys[p].pauli_gadgets[i]].angle,
         paulis |-> PaulisOf(polys[p].pauli_gadgets[i])]]

OnlyPoly == UNCHANGED <<topoVars, ladderVars, simpVars, synthVars, countVars>>

\* PauliGadget.__init__: self.paulis = paulis keeps the list it is given, which
\* is a list that a gadget already keeps (l \in ListIds) or a new list object
new_gadget(g, l) ==
    /\ Len(gadget_objects) < MaxGadgetObjects
    /\ l \in 1 .. Len(pauli_lists) + 1
    /\ IF l \in ListIds
       THEN /\ g.paulis = pauli_lists[l]
            /\ UNCHANGED pauli_lists
       ELSE pauli_lists' = Append(pauli_lists, g.paulis)
    /\ gadget_objects' = Append(gadget_objects, [angle |-> g.angle, paulis |-> l])
    /\ raised' = FALSE
    /\ UNCHANGED polys
    /\ OnlyPoly

\* PauliPolynomial.__irshift__: pp >>= gadget appends the gadget object itself
irshift(p, o) ==
    /\ o \in GadgetIds
    /\ Len(polys[p].pauli_gadgets) < MaxPolyGadgets
    /\ IF Cardinality(DOMAIN PaulisOf(o)) # polys[p].num_qubits
       THEN /\ raised' = TRUE
            /\ UNCHANGED polys
       ELSE /\ raised' = FALSE
            /\ polys' = [polys EXCEPT ![p].pauli_gadgets = Append(@, o)]
    /\ UNCHANGED <<gadget_objects, pauli_lists>>
    /\ OnlyPoly

\* PauliPolynomial.__rshift__: p >> q appends q's gadget objects to p, unchecked
rshift(p, q) ==
    /\ p # q
    /\ Len(polys[p].pauli_gadgets) + Len(polys[q].pauli_gadgets) <= MaxPolyGadgets
    /\ raised' = FALSE
    /\ polys' = [polys EXCEPT ![p].pauli_gadgets = @ \o polys[q].pauli_gadgets]
    /\ UNCHANGED <<gadget_objects, pauli_lists>>
    /\ OnlyPoly

\* PauliPolynomial.copy: q = p.copy(), built with >>= gadget.copy() gadget by
\* gadget; gadget.copy() is PauliGadget(self.angle, self.paulis.copy()), a new
\* gadget on a new list
copy(p, q) ==
    /\ p # q
    /\ Len(gadget_objects) + Len(polys[p].pauli_gadgets) <= MaxGadgetObjects
    /\ IF \E i \in 1 .. Len(polys[p].pauli_gadgets) :
             GadgetLen(GadgetsOf(p)[i]) # polys[p].num_qubits
       THEN /\ raised' = TRUE
            /\ UNCHANGED <<polys, gadget_objects, pauli_lists>>
       ELSE /\ raised' = FALSE
            /\ pauli_lists' = pauli_lists \o
                  [i \in 1 .. Len(polys[p].pauli_gadgets) |-> GadgetsOf(p)[i].paulis]
            /\ gadget_objects' = gadget_objects \o
                  [i \in 1 .. Len(polys[p].pauli_gadgets) |->
                      [angle |-> GadgetsOf(p)[i].angle,
                       paulis |-> Len(pauli_lists) + i]]
            /\ polys' = [polys EXCEPT ![q] =
                  [num_qubits |-> polys[p].num_qubits,
                   pauli_gadgets |-> [i \in 1 .. Len(polys[p].pauli_gadgets) |->
                                         Len(gadget_objects) + i]]]
    /\ OnlyPoly

\* PauliPolynomial.swap_gadgets
swap_gadgets(p, col1, col2) ==
    /\ col1 \in 0 .. Len(polys[p].pauli_gadgets) - 1
    /\ col2 \in 0 .. Len(polys[p].pauli_gadgets) - 1
    /\ col1 # col2
    /\ raised' = FALSE
    /\ LET gs == polys[p].pauli_gadgets
       IN  polys' = [polys EXCEPT ![p].pauli_gadgets =
                        [gs EXCEPT ![col1 + 1] = gs[col2 + 1],
                                   ![col2 + 1] = gs[col1 + 1]]]
    /\ UNCHANGED <<gadget_objects, pauli_lists>>
    /\ OnlyPoly

\* self.paulis[row1], self.paulis[row2] = self.paulis[row2], self.paulis[row1]
SwapLegs(paulis, row1, row2) ==
    [paulis EXCEPT ![row1] = paulis[row2], ![row2] = paulis[row1]]

\* PauliGadget.swap_rows, in place on the list of the gadget: every gadget that
\* keeps the list, and every polynomial holding such a gadget, sees it
swap_rows(o, row1, row2) ==
    /\ o \in GadgetIds
    /\ row1 \in DOMAIN PaulisOf(o)
    /\ row2 \in DOMAIN PaulisOf(o)
    /\ pauli_lists' =
          [pauli_lists EXCEPT ![gadget_objects[o].paulis] = SwapLegs(@, row1, row2)]
    /\ raised' = FALSE
    /\ UNCHANGED <<polys, gadget_objects>>
    /\ OnlyPoly

\* the dictionaries over k qubits, as the sequence of their items
PermutationDicts(k) ==
    {d \in UNION {[1 .. m -> Qubits(k) \X Qubits(k)] : m \in 0 .. k} :
        \A i, j \in DOMAIN d : i # j => d[i][1] # d[j][1]}

\* the loop of PauliGadget.permute over permutation.items()
RECURSIVE permute_legs(_, _)
permute_legs(paulis, items) ==
    IF items = <<>> THEN paulis
    ELSE permute_legs(SwapLegs(paulis, Head(items)[1], Head(items)[2]),
                      Tail(items))

\* PauliGadget.permute, in place on the list of the gadget
permute(o, permutation) ==
    /\ o \in GadgetIds
    /\ permutation \in PermutationDicts(Cardinality(DOMAIN PaulisOf(o)))
    /\ pauli_lists' =
          [pauli_lists EXCEPT ![gadget_objects[o].paulis] =
              permute_legs(@, permutation)]
    /\ raised' = FALSE
    /\ UNCHANGED <<polys, gadget_objects>>
    /\ OnlyPoly

\* the gates H(q), V(q) and CX(c, t) on k qubits
GatesOn(k) ==
    {H(q) : q \in Qubits(k)} \cup {V(q) : q \in Qubits(k)}
        \cup {CX(c, t) : <<c, t>> \in {e \in Qubits(k) \X Qubits(k) : e[1] # e[2]}}

\* whether gadget.paulis has the entries that gate.propagate_pauli reads
\* (an index past the end of the list raises IndexError)
InRange(gate, paulis) ==
    /\ gate.q \in DOMAIN paulis
    /\ gate.kind = "CX" => gate.t \in DOMAIN paulis

\* the loop of PauliPolynomial.propagate over self.pauli_gadgets (ids), on the
\* objects in heap: gate.propagate_pauli(gadget) rewrites the letters of the
\* gadget's list and the gadget's angle in place and returns the gadget, then
\* pp_ >>= tests its length; the loop ends at the first exception
RECURSIVE propagate_gadgets(_, _, _, _)
propagate_gadgets(ids, gate, num_qubits, heap) ==
    IF ids = <<>> THEN heap
    ELSE LET o == Head(ids)
             l == heap.gadget_objects[o].paulis
         IN  IF ~InRange(gate, heap.pauli_lists[l])
             THEN [heap EXCEPT !.raised = TRUE]
             ELSE LET g == propagate_pauli(gate,
                              [angle |-> heap.gadget_objects[o].angle,
                               paulis |-> heap.pauli_lists[l]])
                      rewritten ==
                          [gadget_objects |->
                              [heap.gadget_objects EXCEPT ![o].angle = g.angle],
                           pauli_lists |->
                              [heap.pauli_lists EXCEPT ![l] = g.paulis],
                           raised |-> FALSE]
                  IN  IF GadgetLen(g) # num_qubits
                      THEN [rewritten EXCEPT !.raised = TRUE]
                      ELSE propagate_gadgets(Tail(ids), gate, num_qubits,
                                             rewritten)

\* PauliPolynomial.propagate: q = p.propagate(gate); the new polynomial holds
\* the gadget objects of p, which the gate has rewritten in place (with q = p
\* the polynomial bound to p is as it was, as when the result is dropped)
propagate(p, q, gate) ==
    /\ \E after \in {propagate_gadgets(polys[p].pauli_gadgets, gate,
                                       polys[p].num_qubits,
                                       [gadget_objects |-> gadget_objects,
                                        pauli_lists |-> pauli_lists,
                                        raised |-> FALSE])} :
          /\ gadget_objects' = after.gadget_objects
          /\ pauli_lists' = after.pauli_lists
          /\ raised' = after.raised
          /\ IF after.raised
             THEN UNCHANGED polys
             ELSE polys' = [polys EXCEPT ![q] =
                     [num_qubits |-> polys[p].num_qubits,
                      pauli_gadgets |-> polys[p].pauli_gadgets]]
    /\ OnlyPoly

PolyIdle ==
    /\ polys = <<>>
    /\ gadget_objects = <<>>
    /\ pauli_lists = <<>>
    /\ raised = FALSE

\* PauliPolynomial.__init__
PolyInit ==
    /\ polys \in [PolyIds -> [num_qubits : 1 .. PolyQubits, pauli_gadgets : {<<>>}]]
    /\ gadget_objects = <<>>
    /\ pauli_lists = <<>>
    /\ raised = FALSE

----------------------------------------------------------------------------
(* pauli_polynomial.py: simplify_pauli_polynomial *)

TwoPi == 2

Collapsed(g) == g.angle = TwoPi \/ g.angle = 0

remove_collapsed_pauli_gadegts(poly) ==
    LET Keep(x) == x.angle # TwoPi /\ x.angle # 0
    IN  SelectSeq(poly, Keep)

\* all(p_1 == p_2 for p_1, p_2 in zip(gadget.paulis, gadget_right.paulis))
SamePaulis(g1, g2) ==
    \A q \in DOMAIN g1.paulis \cap DOMAIN g2.paulis : g1.paulis[q] = g2.paulis[q]

None == -1

\* positions are 0-based as in the source: poly[i + 1] is remaining_poly[i]
find_machting_parity_right(i, poly) ==
    LET right == {j \in i + 1 .. Len(poly) - 1 : SamePaulis(poly[i + 1], poly[j + 1])}
    IN  IF right = {} THEN None
        ELSE CHOOSE j \in right : \A k \in right : j <= k

is_commuting_region_unchecked(i, idx_right, poly) == TRUE

is_commuting_region(i, idx_right, poly) ==
    \A k \in i .. idx_right - 1 : commutes(poly[i + 1], poly[k + 1])

Mergeable(i, poly) ==
    /\ find_machting_parity_right(i, poly) # None
    /\ is_commuting_region(i, find_machting_parity_right(i, poly), poly)

merge_overwrite(right_angle, left_angle) == left_angle

\* line 335: the angle of the right gadget after a merge
merge_angle(right_angle, left_angle) == right_angle + left_angle

\* lines 329-336: one iteration of the loop of propagate_phase_gadegts
propagate_one(i, poly) ==
    IF ~Mergeable(i, poly) THEN poly
    ELSE LET r == find_machting_parity_right(i, poly)
         IN  [poly EXCEPT ![r + 1].angle = merge_angle(@, poly[i + 1].angle),
                          ![i + 1].angle = 0]

converged_never_cleared(conv, i, poly) == conv

\* line 337: converged after one iteration
converged_after(conv, i, poly) == IF Mergeable(i, poly) THEN FALSE ELSE conv

\* line 349: remaining_poly = [gadet.copy() for gadet in pp.pauli_gadgets]
SimplifyCall ==
    /\ spc = "call"
    /\ remaining_poly' = (IF run = 1 THEN pp_in ELSE out1)
    /\ converged' = FALSE
    /\ spc' = "while"
    /\ UNCHANGED <<pp_in, idx, run, out1, out2>>
    /\ UNCHANGED <<topoVars, ladderVars, polyVars, synthVars, countVars>>

\* line 352, and the entry of propagate_phase_gadegts (converged = True)
RemoveCollapsed ==
    /\ spc = "while"
    /\ ~converged
    /\ remaining_poly' = remove_collapsed_pauli_gadegts(remaining_poly)
    /\ converged' = TRUE
    /\ idx' = 0
    /\ spc' = "for"
    /\ UNCHANGED <<pp_in, run, out1, out2>>
    /\ UNCHANGED <<topoVars, ladderVars, polyVars, synthVars, countVars>>

\* lines 328-337: one iteration of the for loop
PropagateStep ==
    /\ spc = "for"
    /\ idx < Len(remaining_poly)
    /\ remaining_poly' = propagate_one(idx, remaining_poly)
    /\ converged' = converged_after(converged, idx, remaining_poly)
    /\ idx' = idx + 1
    /\ UNCHANGED <<spc, pp_in, run, out1, out2>>
    /\ UNCHANGED <<topoVars, ladderVars, polyVars, synthVars, countVars>>

\* line 338: return converged
PropagateReturn ==
    /\ spc = "for"
    /\ idx = Len(remaining_poly)
    /\ spc' = "while"
    /\ UNCHANGED <<pp_in, remaining_poly, converged, idx, run, out1, out2>>
    /\ UNCHANGED <<topoVars, ladderVars, polyVars, synthVars, countVars>>

\* lines 355-358: the result; the second application (run 2) takes the first
\* result, out1, as its argument
SimplifyReturn ==
    /\ spc = "while"
    /\ converged
    /\ IF run = 1
       THEN /\ out1' = remaining_poly
            /\ run' = 2
            /\ spc' = "call"
            /\ UNCHANGED out2
       ELSE /\ out2' = remaining_poly
            /\ spc' = "done"
            /\ UNCHANGED <<run, out1>>
    /\ UNCHANGED <<pp_in, remaining_poly, converged, idx>>
    /\ UNCHANGED <<topoVars, ladderVars, polyVars, synthVars, countVars>>

\* angles -pi .. (MaxSimpAngle - 1) * pi
SimpAngles == {a - 1 : a \in 0 .. MaxSimpAngle}

SimpGadgets == [angle : SimpAngles, paulis : [Qubits(SimpQubits) -> Pauli]]

SimpIdle ==
    /\ spc = "off"
    /\ pp_in = <<>>
    /\ remaining_poly = <<>>
    /\ converged = FALSE
    /\ idx = 0
    /\ run = 0
    /\ out1 = <<>>
    /\ out2 = <<>>

SimpInit ==
    /\ spc = "call"
    /\ pp_in \in UNION {[1 .. n -> SimpGadgets] : n \in 0 .. MaxSimpGadgets}
    /\ remaining_poly = <<>>
    /\ converged = FALSE
    /\ idx = 0
    /\ run = 1
    /\ out1 = <<>>
    /\ out2 = <<>>

----------------------------------------------------------------------------
(* Collaborators of steiner_gray_nc.py: find_common_paulis, is_cutting *)

\* PauliGadget.__getitem__: pp.pauli_gadgets[col][q] is getitem(poly[col + 1], q)
getitem(g, q) == g.paulis[q]

\* the value None where a Pauli letter or a pair of letters is expected
NonePauli == "None"

\* the exceptions a call can end with, and the absence of one
NoError == "none"
TypeError == "TypeError"
ValueError == "ValueError"
AssertionError == "AssertionError"

\* pp[l][q1] (find_compatible_pair) is evaluated for the first column in use:
\* PauliPolynomial has no __getitem__, so the subscript raises TypeError
SubscriptRaises(cols) == cols # <<>>

\* find_common_paulis(q, pp): the one non-identity letter on qubit q, or None
find_common_paulis(q, poly) ==
    LET common == {getitem(poly[l + 1], q) : l \in 0 .. Len(poly) - 1} \ {I}
    IN  IF Cardinality(common) = 1 THEN CHOOSE p \in common : TRUE
        ELSE NonePauli

\* G.subgraph(nodes)
subgraph(E, nodes) == {e \in E : e \subseteq nodes}

\* is_cutting(q, G_): removing q disconnects two other nodes of G_
is_cutting(q, E, nodes) ==
    LET G_ == subgraph(E, nodes)
        rest == nodes \ {q}
        G_q == subgraph(E, rest)
        k == Cardinality(nodes)
    IN  \E u, v \in rest :
            /\ u # v
            /\ v \in Ball(G_, u, k)
            /\ v \notin Ball(G_q, u, k)

\* PauliCircuit.inverse()
inverse_gate(g) ==
    CASE g.g = "v" -> Gate1("vdg", g.q)
      [] g.g = "vdg" -> Gate1("v", g.q)
      [] g.g = "rz" -> RZGate(-g.ang, g.q)
      [] OTHER -> g

inverse(qc) == [i \in 1 .. Len(qc) |-> inverse_gate(qc[Len(qc) + 1 - i])]

----------------------------------------------------------------------------
(* steiner_gray_nc.py: row and pair selection, partitions *)

count(poly, cols, q, p) ==
    Cardinality({i \in 1 .. Len(cols) : getitem(poly[cols[i] + 1], q) = p})

Max4(a, b, c, d) == CHOOSE m \in {a, b, c, d} : \A x \in {a, b, c, d} : m >= x
Min4(a, b, c, d) == CHOOSE m \in {a, b, c, d} : \A x \in {a, b, c, d} : m <= x

score(poly, cols, q) ==
    LET i_score == count(poly, cols, q, I)
        x_score == count(poly, cols, q, X)
        y_score == count(poly, cols, q, Y)
        z_score == count(poly, cols, q, Z)
    IN  Max4(i_score, x_score, y_score, z_score)
        - Min4(i_score, x_score, y_score, z_score)

\* pick_row over a list: max() keeps the first qubit with the highest score
pick_row(poly, cols, qubits_to_use) ==
    LET best == CHOOSE i \in 1 .. Len(qubits_to_use) :
                   /\ \A j \in 1 .. Len(qubits_to_use) :
                        score(poly, cols, qubits_to_use[i])
                           >= score(poly, cols, qubits_to_use[j])
                   /\ \A j \in 1 .. i - 1 :
                        score(poly, cols, qubits_to_use[j])
                           < score(poly, cols, qubits_to_use[i])
    IN  qubits_to_use[best]

\* pick_row over G_.neighbors(row), whose order is the graph's: any qubit
\* with the highest score can come first
pick_row_any(poly, cols, qs) ==
    {q \in qs : \A r \in qs : score(poly, cols, q) >= score(poly, cols, r)}

\* find_compatible_pair: with a column in use the first pp[l][q1] raises
\* TypeError; with none no loop body runs and the first pair (X, X) is returned
find_compatible_pair(poly, q1, q2, cols) ==
    IF SubscriptRaises(cols) THEN <<TypeError, TypeError>> ELSE <<X, X>>

\* the pairs of G.edges with both qubits in qubits, lower qubit first
EdgesWithin(E, qubits) ==
    {e \in Range(qubits) \X Range(qubits) : e[1] < e[2] /\ {e[1], e[2]} \in E}

\* pick_best_pair returns the first edge of G.edges that qualifies. G.edges
\* lists each edge of the topology once, lower qubit first (the graph's nodes
\* are the qubits in order); the order of the edges is the graph's own, so
\* any qualifying edge can be the first
\* error: the exception of the first find_compatible_pair; first: the edges
\* that can be returned (none: pick_best_pair returns None)
pick_best_pair(poly, E, cols, qubits) ==
    LET within == EdgesWithin(E, qubits)
    IN  IF within # {} /\ SubscriptRaises(cols)
        THEN [error |-> TypeError, first |-> {}]
        ELSE [error |-> NoError,
              first |-> {e \in within :
                  find_compatible_pair(poly, e[1], e[2], cols)[1] # NonePauli}]

ColsWith_unfiltered(poly, row, cols, p) == cols

\* the columns of cols whose gadget has the letter p on row, in order
ColsWith(poly, row, cols, p) ==
    LET Has(col) == getitem(poly[col + 1], row) = p IN SelectSeq(cols, Has)

partition_without_y(poly, row, cols) ==
    [col_i |-> ColsWith(poly, row, cols, I),
     col_x |-> ColsWith(poly, row, cols, X),
     col_y |-> <<>>,
     col_z |-> ColsWith(poly, row, cols, Z)]

\* partition_pauli_polynomial
partition_pauli_polynomial(poly, row, cols) ==
    [col_i |-> ColsWith(poly, row, cols, I),
     col_x |-> ColsWith(poly, row, cols, X),
     col_y |-> ColsWith(poly, row, cols, Y),
     col_z |-> ColsWith(poly, row, cols, Z)]

\* partition_pauli_polynomial_: max() keeps the first of the largest pairs
partition_pauli_polynomial_(poly, row, cols) ==
    LET p == partition_pauli_polynomial(poly, row, cols)
        xy == Len(p.col_x) + Len(p.col_y)
        xz == Len(p.col_x) + Len(p.col_z)
        yz == Len(p.col_y) + Len(p.col_z)
    IN  IF xy >= xz /\ xy >= yz
        THEN [pp_i |-> p.col_i, t1 |-> X, t2 |-> Y, pp2 |-> p.col_x \o p.col_y,
              t_p1 |-> Z, pp1 |-> p.col_z]
        ELSE IF xz >= yz
        THEN [pp_i |-> p.col_i, t1 |-> X, t2 |-> Z, pp2 |-> p.col_x \o p.col_z,
              t_p1 |-> Y, pp1 |-> p.col_y]
        ELSE [pp_i |-> p.col_i, t1 |-> Y, t2 |-> Z, pp2 |-> p.col_y \o p.col_z,
              t_p1 |-> X, pp1 |-> p.col_x]

Remove_nothing(s, q) == s

Remove(s, q) == LET Keep(x) == x # q IN SelectSeq(s, Keep)

----------------------------------------------------------------------------
(* steiner_gray_nc.py: the statements that touch pp and a circuit *)

\* one statement: qc.<gate>(...) or pp.propagate(<gate>, columns_to_use)
QC(gate) == [op |-> "qc", gate |-> gate]
PP(gate) == [op |-> "pp", gate |-> gate]
\* raise <error>
RAISE(error) == [op |-> "raise", error |-> error]

NoEffect(poly) ==
    [pp |-> poly, appended |-> <<>>, propagated |-> <<>>, error |-> NoError]

\* the statements stopped with an exception
Raised(poly, error) ==
    [pp |-> poly, appended |-> <<>>, propagated |-> <<>>, error |-> error]

\* r1, then r2 unless r1 raised
Then(r1, r2) ==
    IF r1.error # NoError THEN r1
    ELSE [pp |-> r2.pp,
          appended |-> r1.appended \o r2.appended,
          propagated |-> r1.propagated \o r2.propagated,
          error |-> r2.error]

\* runs the statements in order, up to the first that raises:
\* pp.propagate(gate, columns_to_use) raises TypeError, as
\* PauliPolynomial.propagate(self, gate) takes the gate only
RECURSIVE run_ops(_, _, _)
run_ops(poly, ops, cols) ==
    IF ops = <<>> THEN NoEffect(poly)
    ELSE LET o == Head(ops)
         IN  IF o.op = "raise" THEN Raised(poly, o.error)
             ELSE IF o.op = "qc"
             THEN Then([pp |-> poly, appended |-> <<o.gate>>,
                        propagated |-> <<>>, error |-> NoError],
                       run_ops(poly, Tail(ops), cols))
             ELSE Raised(poly, TypeError)

update_gadget_single_column(poly, q, p, cols) ==
    run_ops(poly,
            IF p = X THEN <<PP(H(q)), QC(Gate1("h", q))>>
            ELSE IF p = Y THEN <<PP(V(q)), QC(Gate1("v", q))>>
            ELSE IF p = Z THEN <<>>
            ELSE <<RAISE(ValueError)>>,
            cols)

RECURSIVE update_single_qubits(_, _, _)
update_single_qubits(poly, qubits, cols) ==
    IF qubits = <<>> THEN NoEffect(poly)
    ELSE LET q == Head(qubits)
             p == find_common_paulis(q, poly)
             first == IF p # NonePauli
                      THEN update_gadget_single_column(poly, q, p, cols)
                      ELSE NoEffect(poly)
         IN  Then(first, update_single_qubits(first.pp, Tail(qubits), cols))

\* one pass of the while loop of update_pair_qubits on the edge (q_1, q_2)
update_pair(poly, q_1, q_2, cols) ==
    LET pair == find_compatible_pair(poly, q_1, q_2, cols)
        r1 == update_gadget_single_column(poly, q_1, pair[1], cols)
        r2 == update_gadget_single_column(r1.pp, q_2, pair[2], cols)
        r3 == run_ops(r2.pp, <<PP(CX(q_1, q_2)), QC(CXGate(q_1, q_2))>>, cols)
    IN  IF pair[1] = TypeError THEN Raised(poly, TypeError)
        ELSE Then(Then(r1, r2), r3)

\* basis change on row before the recursion (check_identity, simplify_*)
row_ops(row, rec_type) ==
    IF rec_type = X THEN <<QC(Gate1("h", row)), PP(H(row))>>
    ELSE IF rec_type = Y THEN <<QC(Gate1("vdg", row)), PP(V(row))>>
    ELSE <<>>

\* ... and its undoing after the recursion
row_undo(row, rec_type) ==
    IF rec_type = X THEN <<Gate1("h", row)>>
    ELSE IF rec_type = Y THEN <<Gate1("v", row)>>
    ELSE <<>>

check_identity_ops(row, row_next, rec_type) ==
    row_ops(row, rec_type)
    \o <<QC(CXGate(row_next, row)), QC(CXGate(row, row_next)),
         PP(CX(row_next, row)), PP(CX(row, row_next))>>

check_identity_undo(row, row_next, rec_type) ==
    <<CXGate(row, row_next), CXGate(row_next, row)>> \o row_undo(row, rec_type)

simplify_twp_p_ops(row, rec_type, row_next, t1, t2) ==
    row_ops(row, rec_type)
    \o (IF t1 = X /\ t2 = Y THEN <<QC(Gate1("h", row_next)), PP(H(row_next))>>
        ELSE IF t1 = X /\ t2 = Z
        THEN <<QC(Gate1("vdg", row_next)), PP(V(row_next))>>
        ELSE <<>>)
    \o <<QC(CXGate(row, row_next)), PP(CX(row, row_next))>>

simplify_twp_p_undo(row, rec_type, row_next, t1, t2) ==
    <<CXGate(row, row_next)>>
    \o row_undo(row, rec_type)
    \o (IF t1 = X /\ t2 = Y THEN <<Gate1("h", row_next)>>
        ELSE IF t1 = X /\ t2 = Z THEN <<Gate1("v", row_next)>>
        ELSE <<>>)

simplify_one_p_ops(row, rec_type, row_next, rec_type_next) ==
    row_ops(row, rec_type)
    \o row_ops(row_next, rec_type_next)
    \o <<QC(CXGate(row, row_next)), PP(CX(row, row_next))>>

simplify_one_p_undo(row, rec_type, row_next, rec_type_next) ==
    <<CXGate(row, row_next)>>
    \o row_undo(row, rec_type)
    \o row_undo(row_next, rec_type_next)

\* apply_rotation
apply_rotation_gates(poly, cols, row, rec_type) ==
    (IF rec_type = X THEN <<Gate1("h", row)>>
     ELSE IF rec_type = Y THEN <<Gate1("v", row)>>
     ELSE <<>>)
    \o [i \in 1 .. Len(cols) |-> RZGate(poly[cols[i] + 1].angle, row)]
    \o (IF rec_type = X THEN <<Gate1("h", row)>>
        ELSE IF rec_type = Y THEN <<Gate1("vdg", row)>>
        ELSE <<>>)

\* neighbours of row in G.subgraph(qubits_to_use + [row]), as p_recurse takes them
neighbours(E, nodes, row) == Neighbours(subgraph(E, nodes), row)

----------------------------------------------------------------------------
(* steiner_gray_nc.py: pauli_polynomial_steiner_gray_nc as a machine.
   stack holds the calls still to run, innermost first; a call that recurses
   replaces itself by its sub-calls followed by the gates it appends after
   them, so circ_out grows in the order of the returned circuit. *)

Call(fn, cols, qubits, row, rec_type, row_next, t1, t2, caller) ==
    [fn |-> fn, cols |-> cols, qubits |-> qubits, row |-> row,
     rec_type |-> rec_type, row_next |-> row_next, t1 |-> t1, t2 |-> t2,
     gates |-> <<>>, non_visited |-> <<>>, caller |-> caller]

IdentityCall(cols, qubits, caller) ==
    Call("identity_recurse", cols, qubits, -1, I, -1, I, I, caller)

PCall(cols, qubits, row, rec_type, caller) ==
    Call("p_recurse", cols, qubits, row, rec_type, -1, I, I, caller)

RotationCall(cols, row, rec_type, caller) ==
    Call("apply_rotation", cols, <<>>, row, rec_type, -1, I, I, caller)

\* the gates a call appends to its circuit after its sub-calls have returned
Epilogue(gates, caller) ==
    [Call("epilogue", <<>>, <<>>, -1, I, -1, I, I, caller) EXCEPT !.gates = gates]

Top == Head(stack)

\* a call with no columns returns an empty circuit at once: it is not left to
\* run (p_recurse asserts on its rec_type before it looks at the columns)
HasWork(call) ==
    IF call.fn = "epilogue" THEN TRUE
    ELSE IF call.fn = "apply_rotation" THEN call.cols # <<>> \/ call.rec_type # I
    ELSE IF call.fn = "p_recurse"
    THEN call.cols # <<>> \/ call.rec_type \notin {X, Y, Z}
    ELSE call.cols # <<>>

IsCall(call) == call.fn # "epilogue"

\* the calls cs are made in this order, then the caller's remaining work
Recurse(cs) ==
    /\ calls' = SelectSeq(cs, IsCall)
    /\ stack' = SelectSeq(cs, HasWork) \o Tail(stack)

NoCalls ==
    /\ calls' = <<>>
    /\ stack' = Tail(stack)

Running(fn) == status = "running" /\ stack # <<>> /\ Top.fn = fn

Signature(call) == [fn |-> call.fn, cols |-> call.cols, qubits |-> call.qubits]

\* the call changed pp and appended gates to the circuit it is building
Effects(r, cols) ==
    /\ pp' = r.pp
    /\ appended' = r.appended
    /\ propagated' = r.propagated
    /\ hist' = [c \in DOMAIN hist |->
                   IF (c - 1) \in Range(cols) THEN hist[c] \o r.appended
                   ELSE hist[c]]

NoEffects ==
    /\ appended' = <<>>
    /\ propagated' = <<>>
    /\ UNCHANGED <<pp, hist>>

\* the running call raises: the exception ends the synthesis
Raise(error) ==
    /\ status' = error
    /\ calls' = <<>>
    /\ NoEffects
    /\ UNCHANGED stack

OnlySynth ==
    UNCHANGED <<topoVars, ladderVars, polyVars, simpVars, countVars, pp0>>

\* identity_recurse up to and including update_single_qubits
identity_recurse ==
    /\ Running("identity_recurse")
    /\ last' = Top
    /\ IF Top.cols = <<>>
       THEN /\ NoCalls
            /\ NoEffects
            /\ UNCHANGED status
       ELSE \E r \in {update_single_qubits(pp, Top.qubits, Top.cols)} :
                IF r.error # NoError THEN Raise(r.error)
                ELSE /\ Effects(r, Top.cols)
                     /\ calls' = <<>>
                     /\ stack' = <<[Top EXCEPT !.fn = "update_pair_qubits",
                                               !.gates = r.appended,
                                               !.non_visited = Top.qubits]>>
                                 \o Tail(stack)
                     /\ UNCHANGED status
    /\ UNCHANGED <<perm_gadgets, circ_out>>
    /\ OnlySynth

\* one pass of the while loop of update_pair_qubits
update_pair_qubits ==
    /\ Running("update_pair_qubits")
    /\ last' = Top
    /\ \E qubit_pairs \in {pick_best_pair(pp, arch, Top.cols, Top.non_visited)} :
          IF qubit_pairs.error # NoError THEN Raise(qubit_pairs.error)
          ELSE \E e \in qubit_pairs.first :
               \E r \in {update_pair(pp, e[1], e[2], Top.cols)} :
                  IF r.error # NoError THEN Raise(r.error)
                  ELSE /\ Effects(r, Top.cols)
                       /\ calls' = <<>>
                       /\ stack' = <<[Top EXCEPT
                                        !.gates = @ \o r.appended,
                                        !.non_visited =
                                            Remove(Remove(@, e[1]), e[2])]>>
                                   \o Tail(stack)
                       /\ UNCHANGED status
    /\ UNCHANGED <<perm_gadgets, circ_out>>
    /\ OnlySynth

\* identity_recurse from G_ = G.subgraph(qubits_to_use) on
identity_recurse_split ==
    /\ Running("update_pair_qubits")
    /\ pick_best_pair(pp, arch, Top.cols, Top.non_visited)
          = [error |-> NoError, first |-> {}]
    /\ last' = Top
    /\ LET nodes == Range(Top.qubits)
           NonCutting(q) == ~is_cutting(q, arch, nodes)
       IN  \E non_cutting \in {SelectSeq(Top.qubits, NonCutting)} :
           IF non_cutting = <<>>
           THEN /\ status' = ValueError
                /\ calls' = <<>>
                /\ UNCHANGED <<stack, circ_out>>
           ELSE \E row \in {pick_row(pp, Top.cols, non_cutting)} :
                \E part \in {partition_pauli_polynomial(pp, row, Top.cols)} :
                LET remaining_qubits == Remove(Top.qubits, row)
                    me == [Signature(Top) EXCEPT !.fn = "identity_recurse"]
                    qc_i == IF remaining_qubits # <<>>
                            THEN IdentityCall(part.col_i, remaining_qubits, me)
                            ELSE RotationCall(part.col_i, row, I, me)
                IN  /\ circ_out' = circ_out \o inverse(Top.gates)
                    /\ Recurse(<<qc_i,
                                 PCall(part.col_x, remaining_qubits, row, X, me),
                                 PCall(part.col_y, remaining_qubits, row, Y, me),
                                 PCall(part.col_z, remaining_qubits, row, Z, me),
                                 Epilogue(Top.gates, me)>>)
                    /\ UNCHANGED status
    /\ NoEffects
    /\ UNCHANGED perm_gadgets
    /\ OnlySynth

\* p_recurse: the assertion on rec_type (line 183) comes first; with no qubit
\* left p_recurse itself calls apply_rotation
p_recurse ==
    /\ Running("p_recurse")
    /\ last' = Top
    /\ IF Top.rec_type \notin {X, Y, Z}
       THEN /\ status' = AssertionError
            /\ calls' = <<>>
            /\ UNCHANGED stack
       ELSE IF Top.cols = <<>>
       THEN NoCalls /\ UNCHANGED status
       ELSE IF Top.qubits = <<>>
       THEN /\ Recurse(<<RotationCall(Top.cols, Top.row, Top.rec_type,
                                      Signature(Top))>>)
            /\ UNCHANGED status
       ELSE LET nodes == Range(Top.qubits) \cup {Top.row}
                nbrs == neighbours(arch, nodes, Top.row)
                me == Signature(Top)
            IN  IF nbrs = {}
                THEN /\ status' = AssertionError
                     /\ calls' = <<>>
                     /\ UNCHANGED stack
                ELSE /\ \E row_next \in pick_row_any(pp, Top.cols, nbrs) :
                          \E part \in {partition_pauli_polynomial_(pp, row_next,
                                                                   Top.cols)} :
                          LET remaining_qubits == Remove(Top.qubits, row_next)
                              qc_i ==
                                IF ~is_cutting(row_next, arch, nodes)
                                THEN IdentityCall(part.pp_i,
                                         remaining_qubits \o <<Top.row>>, me)
                                ELSE Call("check_identity", part.pp_i,
                                          remaining_qubits, Top.row, Top.rec_type,
                                          row_next, I, I, me)
                              qc_two == Call("simplify_twp_p", part.pp2,
                                             remaining_qubits, Top.row,
                                             Top.rec_type, row_next,
                                             part.t1, part.t2, me)
                              qc_one == Call("simplify_one_p", part.pp1,
                                             remaining_qubits, Top.row,
                                             Top.rec_type, row_next,
                                             part.t_p1, I, me)
                          IN  Recurse(<<qc_i, qc_two, qc_one>>)
                     /\ UNCHANGED status
    /\ NoEffects
    /\ UNCHANGED <<perm_gadgets, circ_out>>
    /\ OnlySynth

apply_rotation ==
    /\ Running("apply_rotation")
    /\ last' = Top
    /\ circ_out' = circ_out
                   \o apply_rotation_gates(pp, Top.cols, Top.row, Top.rec_type)
    /\ perm_gadgets' = perm_gadgets \o Top.cols
    /\ NoCalls
    /\ NoEffects
    /\ UNCHANGED status
    /\ OnlySynth

\* the three helpers of p_recurse: gates and propagation (with the effects
\* done), one recursion or two (subcalls), then the undoing gates
Helper(fn, done, subcalls, undo) ==
    /\ Running(fn)
    /\ last' = Top
    /\ IF Top.cols = <<>>
       THEN /\ NoCalls
            /\ NoEffects
            /\ UNCHANGED <<circ_out, status>>
       ELSE \E r \in {done} :
                IF r.error # NoError
                THEN Raise(r.error) /\ UNCHANGED circ_out
                ELSE /\ Effects(r, Top.cols)
                     /\ circ_out' = circ_out \o r.appended
                     /\ Recurse(subcalls \o <<Epilogue(undo, Top.caller)>>)
                     /\ UNCHANGED status
    /\ UNCHANGED perm_gadgets
    /\ OnlySynth

check_identity ==
    Helper("check_identity",
           run_ops(pp, check_identity_ops(Top.row, Top.row_next, Top.rec_type),
                   Top.cols),
           <<PCall(Top.cols, Top.qubits, Top.row_next, Z, Top.caller)>>,
           check_identity_undo(Top.row, Top.row_next, Top.rec_type))

\* (the statements before the recursion end with pp.propagate, which raises:
\* the subscripts pp[col][row_next] of the two column lists are not reached)
simplify_twp_p ==
    LET done == run_ops(pp, simplify_twp_p_ops(Top.row, Top.rec_type,
                                               Top.row_next, Top.t1, Top.t2),
                        Top.cols)
    IN  Helper("simplify_twp_p",
               done,
               <<PCall(ColsWith(done.pp, Top.row_next, Top.cols, Z), Top.qubits,
                       Top.row_next, Z, Top.caller),
                 PCall(ColsWith(done.pp, Top.row_next, Top.cols, Y), Top.qubits,
                       Top.row_next, Y, Top.caller)>>,
               simplify_twp_p_undo(Top.row, Top.rec_type, Top.row_next,
                                   Top.t1, Top.t2))

simplify_one_p ==
    Helper("simplify_one_p",
           run_ops(pp, simplify_one_p_ops(Top.row, Top.rec_type, Top.row_next,
                                          Top.t1),
                   Top.cols),
           <<PCall(Top.cols, Top.qubits, Top.row_next, Z, Top.caller)>>,
           simplify_one_p_undo(Top.row, Top.rec_type, Top.row_next, Top.t1))

\* the gates a call appends after its recursion
AppendAfter ==
    /\ Running("epilogue")
    /\ last' = Top
    /\ circ_out' = circ_out \o Top.gates
    /\ NoCalls
    /\ NoEffects
    /\ UNCHANGED <<perm_gadgets, status>>
    /\ OnlySynth

\* circ_out = identity_recurse(...) has returned: return circ_out, perm_gadgets
SynthReturn ==
    /\ status = "running"
    /\ stack = <<>>
    /\ status' = "returned"
    /\ UNCHANGED <<pp, stack, perm_gadgets, circ_out, appended, propagated,
                   hist, last, calls>>
    /\ OnlySynth

\* pauli_polynomial_steiner_gray_nc up to its call of identity_recurse
SynthStart ==
    /\ pp = pp0
    /\ hist = [c \in 1 .. Len(pp0) |-> <<>>]
    /\ stack = <<IdentityCall([c \in 1 .. Len(pp0) |-> c - 1],
                              [q \in 1 .. nq |-> q - 1],
                              [fn |-> "pauli_polynomial_steiner_gray_nc",
                               cols |-> [c \in 1 .. Len(pp0) |-> c - 1],
                               qubits |-> [q \in 1 .. nq |-> q - 1]])>>
    /\ perm_gadgets = <<>>
    /\ circ_out = <<>>
    /\ appended = <<>>
    /\ propagated = <<>>
    /\ calls = <<>>
    /\ last = Call("none", <<>>, <<>>, -1, I, -1, I, I, <<>>)
    /\ status = "running"

\* the polynomials of at most SynthGadgets gadgets and SynthCells letters
SynthPolynomial ==
    \E k \in 0 .. SynthGadgets :
       /\ k * nq <= SynthCells
       /\ \E strs \in [1 .. k -> [Qubits(nq) -> Pauli]] :
             pp0 = [c \in 1 .. k |-> [angle |-> c, paulis |-> strs[c]]]

\* the polynomials and topologies pauli_polynomial_steiner_gray_nc is run on:
\* any set of couplings is a topology, connected or not
SynthInit ==
    /\ nq \in 1 .. SynthQubits
    /\ arch \in SUBSET Couplings(nq)
    /\ SynthPolynomial
    /\ SynthStart

----------------------------------------------------------------------------
(* pauli_gadget.py, pauli_polynomial.py: two_qubit_count.  The calls share
   the dictionary leg_cache; a call given no dictionary makes its own.  The
   gadgets of a polynomial are read as its loop reaches them. *)

\* col_binary = [1 if self[q] != I else 0 for q in range(self.num_qubits)]
col_binary(paulis) == [q \in DOMAIN paulis |-> IF paulis[q] # I THEN 1 ELSE 0]

col_id_legs(col, n) == <<ToString(Cardinality({q \in Qubits(n) : col[q] = 1}))>>

\* col_id = "".join([str(int(el)) for el in col_binary]), character by character
col_id(col, n) == [i \in 1 .. n |-> ToString(col[i - 1])]

\* the dictionary the running call works with
CacheInUse == IF shared THEN leg_cache ELSE own_cache

\* leg_cache[key] = value
Put(dict, key, value) ==
    [k \in DOMAIN dict \cup {key} |-> IF k = key THEN value ELSE dict[k]]

CountGadgets == [angle : {1}, paulis : [Qubits(nq) -> Pauli]]

NoLadder ==
    /\ mst' = {}
    /\ pending' = {}
    /\ queue' = <<>>
    /\ visited' = {}
    /\ cnot_ladder' = <<>>
    /\ q0' = 0

\* line 125 for every gadget the call can be made on
ColBinaries == {col_binary(g.paulis) : g \in CountGadgets}

\* PauliGadget.two_qubit_count, lines 126-131, for a gadget with this
\* col_binary: up to the cache hit or the call of find_minimal_cx_assignment
TwoQubitCountCall(col, dict) ==
    /\ IF col_id(col, nq) \in DOMAIN dict
       THEN /\ column' = col
            /\ cnot_amount' = dict[col_id(col, nq)]
            /\ NoLadder
            /\ pc' = "counted"
       ELSE /\ StartFindMinimal(col)
            /\ cnot_amount' = -1
            /\ pc' = "bfs"
    /\ UNCHANGED <<gadget, circ>>

OnlyCount == UNCHANGED <<topoVars, polyVars, simpVars, synthVars>>

\* gadget.two_qubit_count(topology, leg_cache) or gadget.two_qubit_count(topology)
gadget_two_qubit_count ==
    /\ pc = "ready"
    /\ \E col \in ColBinaries, given \in BOOLEAN :
          /\ shared' = given
          /\ TwoQubitCountCall(col, IF given THEN leg_cache ELSE <<>>)
    /\ own_cache' = <<>>
    /\ called_by' = "gadget"
    /\ todo' = 0
    /\ counted' = <<>>
    /\ two_qubit_total' = 0
    /\ UNCHANGED leg_cache
    /\ OnlyCount

\* lines 130-133: find_minimal_cx_assignment has returned; its locals are gone
two_qubit_count_return ==
    /\ pc = "bfs"
    /\ pending = {}
    /\ queue = <<>>
    /\ cnot_amount' = 2 * Len(cnot_ladder)
    /\ IF shared
       THEN /\ leg_cache' = Put(leg_cache, col_id(column, nq), 2 * Len(cnot_ladder))
            /\ UNCHANGED own_cache
       ELSE /\ own_cache' = Put(own_cache, col_id(column, nq), 2 * Len(cnot_ladder))
            /\ UNCHANGED leg_cache
    /\ pc' = "counted"
    /\ NoLadder
    /\ UNCHANGED <<gadget, column, circ>>
    /\ UNCHANGED <<shared, called_by, todo, counted, two_qubit_total>>
    /\ OnlyCount

\* PauliPolynomial.two_qubit_count, lines 139-142
polynomial_two_qubit_count ==
    /\ pc = "ready"
    /\ \E n \in 0 .. MaxCountGadgets, given \in BOOLEAN :
          /\ todo' = n
          /\ shared' = given
    /\ own_cache' = <<>>
    /\ called_by' = "polynomial"
    /\ counted' = <<>>
    /\ two_qubit_total' = 0
    /\ cnot_amount' = -1
    /\ column' = [q \in Qubits(nq) |-> 0]
    /\ NoLadder
    /\ pc' = "poly"
    /\ UNCHANGED <<gadget, circ, leg_cache>>
    /\ OnlyCount

\* line 144: gadget.two_qubit_count(topology, leg_cache=leg_cache) is called
polynomial_next_gadget ==
    /\ pc = "poly"
    /\ todo > 0
    /\ \E col \in ColBinaries : TwoQubitCountCall(col, CacheInUse)
    /\ UNCHANGED <<leg_cache, own_cache, shared, called_by, todo, counted, two_qubit_total>>
    /\ OnlyCount

\* line 144: count += the value returned
polynomial_add ==
    /\ pc = "counted"
    /\ called_by = "polynomial"
    /\ two_qubit_total' = two_qubit_total + cnot_amount
    /\ counted' = Append(counted, col_id(column, nq))
    /\ todo' = todo - 1
    /\ pc' = "poly"
    /\ UNCHANGED <<gadget, column, mst, pending, queue, visited, cnot_ladder, q0,
                   circ>>
    /\ UNCHANGED <<leg_cache, own_cache, shared, called_by, cnot_amount>>
    /\ OnlyCount

\* line 145: return count
polynomial_return ==
    /\ pc = "poly"
    /\ todo = 0
    /\ pc' = "returned"
    /\ UNCHANGED <<gadget, column, mst, pending, queue, visited, cnot_ladder, q0,
                   circ>>
    /\ UNCHANGED countVars
    /\ OnlyCount

\* the caller has the value returned and goes on to its next call with the
\* shared dictionary
call_returned ==
    /\ \/ pc = "counted" /\ called_by = "gadget"
       \/ pc = "returned"
    /\ pc' = "ready"
    /\ column' = [q \in Qubits(nq) |-> 0]
    /\ own_cache' = <<>>
    /\ shared' = FALSE
    /\ called_by' = "none"
    /\ todo' = 0
    /\ counted' = <<>>
    /\ two_qubit_total' = 0
    /\ cnot_amount' = -1
    /\ UNCHANGED <<gadget, mst, pending, queue, visited, cnot_ladder, q0, circ>>
    /\ UNCHANGED leg_cache
    /\ OnlyCount

CountIdle ==
    /\ leg_cache = <<>>
    /\ own_cache = <<>>
    /\ shared = FALSE
    /\ called_by = "none"
    /\ todo = 0
    /\ counted = <<>>
    /\ two_qubit_total = 0
    /\ cnot_amount = -1

\* a topology and an empty shared dictionary
CountInit ==
    /\ nq \in 1 .. CountQubits
    /\ arch \in Topologies(nq)
    /\ gadget = [angle |-> 0, paulis |-> <<>>]
    /\ pc = "ready"
    /\ column = [q \in Qubits(nq) |-> 0]
    /\ mst = {}
    /\ pending = {}
    /\ queue = <<>>
    /\ visited = {}
    /\ cnot_ladder = <<>>
    /\ q0 = 0
    /\ circ = <<>>
    /\ CountIdle

----------------------------------------------------------------------------
(* Specifications *)

LadderNext == ToCircuitCall \/ BfsPop \/ BfsEdge \/ ToCircuitReturn

InitLadder == LadderInit /\ PolyIdle /\ SimpIdle /\ SynthIdle /\ CountIdle

SpecLadder == InitLadder /\ [][LadderNext]_vars

PolyNext ==
    \/ \E g \in AnyGadget, l \in 1 .. MaxGadgetObjects : new_gadget(g, l)
    \/ \E p \in PolyIds, o \in 1 .. MaxGadgetObjects : irshift(p, o)
    \/ \E p, q \in PolyIds : rshift(p, q)
    \/ \E p, q \in PolyIds : copy(p, q)
    \/ \E p \in PolyIds, col1, col2 \in 0 .. MaxPolyGadgets - 1 :
          swap_gadgets(p, col1, col2)
    \/ \E o \in 1 .. MaxGadgetObjects, row1, row2 \in Qubits(PolyQubits) :
          swap_rows(o, row1, row2)
    \/ \E o \in 1 .. MaxGadgetObjects,
          permutation \in PermutationDicts(PolyQubits) : permute(o, permutation)
    \/ \E p, q \in PolyIds, gate \in GatesOn(PolyQubits) : propagate(p, q, gate)

InitPoly == PolyInit /\ TopologyIdle /\ LadderIdle /\ SimpIdle /\ SynthIdle /\ CountIdle

SpecPoly == InitPoly /\ [][PolyNext]_vars

SimpNext ==
    \/ SimplifyCall
    \/ RemoveCollapsed
    \/ PropagateStep
    \/ PropagateReturn
    \/ SimplifyReturn

InitSimplify == SimpInit /\ TopologyIdle /\ LadderIdle /\ PolyIdle /\ SynthIdle /\ CountIdle

SpecSimplify == InitSimplify /\ [][SimpNext]_vars

\* check_identity, simplify_twp_p and simplify_one_p are called by p_recurse
\* after its assertion only.  identity_recurse gets past update_pair_qubits
\* only when no coupling joins two of its qubits, so the p_recurse it calls
\* with columns and qubits left finds no neighbour: the three are never
\* entered and are no step of a run.
SynthNext ==
    \/ identity_recurse
    \/ update_pair_qubits
    \/ identity_recurse_split
    \/ p_recurse
    \/ apply_rotation
    \/ AppendAfter
    \/ SynthReturn

InitSynth == SynthInit /\ LadderIdle /\ PolyIdle /\ SimpIdle /\ CountIdle

SpecSynth == InitSynth /\ [][SynthNext]_vars

CountNext ==
    \/ gadget_two_qubit_count
    \/ BfsPop
    \/ BfsEdge
    \/ two_qubit_count_return
    \/ polynomial_two_qubit_count
    \/ polynomial_next_gadget
    \/ polynomial_add
    \/ polynomial_return
    \/ call_returned

InitCount == CountInit /\ PolyIdle /\ SimpIdle /\ SynthIdle

SpecCount == InitCount /\ [][CountNext]_vars

----------------------------------------------------------------------------
(* Properties of find_minimal_cx_assignment and to_circuit *)

SymDiff(a, b) == (a \ b) \cup (b \ a)

\* Each ladder entry (c, t) read as the CNOT t := t XOR c; a value is the set
\* of qubits whose initial bits it is the XOR of.
RECURSIVE ApplyCnots(_, _)
ApplyCnots(val, cnots) ==
    IF cnots = <<>> THEN val
    ELSE ApplyCnots([val EXCEPT ![Head(cnots)[2]] = SymDiff(@, val[Head(cnots)[1]])],
                    Tail(cnots))

ParityAfter(ladder, n) == ApplyCnots([q \in Qubits(n) |-> {q}], Reverse(ladder))

LadderReturned == pc = "done" /\ Active(column) # {}

\* C4: with at least one active qubit and no forced root, the returned root
\* is the lowest-index active qubit, and applying the ladder in reverse order
\* leaves on the root the XOR of exactly the active qubits.
C4_LadderCouplesActive ==
    LadderReturned =>
        /\ q0 \in Active(column)
        /\ \A r \in Active(column) : q0 <= r
        /\ ParityAfter(cnot_ladder, nq)[q0] = Active(column)

\* a returned ladder over three active qubits that hops over an inactive one
C4_Witness ==
    /\ LadderReturned
    /\ Cardinality(Active(column)) >= 3
    /\ \E i \in 1 .. Len(cnot_ladder) : cnot_ladder[i][1] \notin Active(column)

OnTreePath(w) ==
    \/ w \in Active(column)
    \/ \E e \in mst : \E u, v \in e :
          /\ u # v
          /\ dist(arch, u, w) + dist(arch, w, v) = dist(arch, u, v)

\* C5: every ladder pair is a pair of distinct, adjacent qubits, each active
\* or on a shortest path between two active qubits joined by a tree edge.
C5_LadderPairsAdjacent ==
    \A i \in 1 .. Len(cnot_ladder) :
        /\ cnot_ladder[i][1] # cnot_ladder[i][2]
        /\ {cnot_ladder[i][1], cnot_ladder[i][2]} \in arch
        /\ OnTreePath(cnot_ladder[i][1])
        /\ OnTreePath(cnot_ladder[i][2])

\* a ladder segment that walks a path of two hops or more
C5_Witness ==
    /\ pc = "bfs"
    /\ \E i \in 1 .. Len(cnot_ladder) : cnot_ladder[i][2] \notin Active(column)
    /\ \E e \in mst : \E u, v \in e : dist(arch, u, v) >= 3

IsBasis(g) == g.g \in {"h", "v", "vdg"}

RzPositions(c) == {i \in 1 .. Len(c) : c[i].g = "rz"}

CxOf(c) == LET IsCx(g) == g.g = "cx" IN SelectSeq(c, IsCx)

BasisOn(c, q) == LET OnQ(g) == IsBasis(g) /\ g.q = q IN SelectSeq(c, OnQ)

\* C6: for a gadget with at least one leg the circuit holds exactly one
\* Z-rotation, by the gadget's angle on the root; the CX gates before it are
\* replayed after it in reverse order, and each qubit's basis change before
\* it (H for X, V for Y, none for Z or I) is followed after it by its inverse.
C6_ToCircuitSandwich ==
    LadderReturned =>
        /\ Cardinality(RzPositions(circ)) = 1
        /\ LET k == CHOOSE i \in RzPositions(circ) : TRUE
               before == SubSeq(circ, 1, k - 1)
               after == SubSeq(circ, k + 1, Len(circ))
           IN  /\ circ[k] = RZGate(gadget.angle, q0)
               /\ CxOf(after) = Reverse(CxOf(before))
               /\ CxOf(before) = CXGates(Reverse(cnot_ladder))
               /\ \A q \in Qubits(nq) :
                    /\ gadget.paulis[q] = X =>
                          /\ BasisOn(before, q) = <<Gate1("h", q)>>
                          /\ BasisOn(after, q) = <<Gate1("h", q)>>
                    /\ gadget.paulis[q] = Y =>
                          /\ BasisOn(before, q) = <<Gate1("v", q)>>
                          /\ BasisOn(after, q) = <<Gate1("vdg", q)>>
                    /\ gadget.paulis[q] \in {Z, I} =>
                          /\ BasisOn(before, q) = <<>>
                          /\ BasisOn(after, q) = <<>>

\* a circuit with X and Y legs and a ladder of several CX gates
C6_Witness ==
    /\ LadderReturned
    /\ Len(cnot_ladder) >= 3
    /\ \E q, r \in Qubits(nq) : gadget.paulis[q] = X /\ gadget.paulis[r] = Y

----------------------------------------------------------------------------
(* Properties of PauliPolynomial *)

\* C7: after any sequence of >>=, >>, copy and swap_gadgets every gadget of a
\* polynomial has the polynomial's num_qubits as its length.
C7_GadgetLengthInvariant ==
    \A p \in DOMAIN polys : \A i \in 1 .. Len(polys[p].pauli_gadgets) :
        GadgetLen(GadgetsOf(p)[i]) = polys[p].num_qubits

----------------------------------------------------------------------------
(* Properties of simplify_pauli_polynomial *)

RECURSIVE AngleSum(_, _)
AngleSum(poly, paulis) ==
    IF poly = <<>> THEN 0
    ELSE (IF Head(poly).paulis = paulis THEN Head(poly).angle ELSE 0)
         + AngleSum(Tail(poly), paulis)

SimpStrings == [Qubits(SimpQubits) -> Pauli]

\* C8: simplifying the result of simplify_pauli_polynomial again returns the
\* same sequence of gadgets (strings, angles, order).
C8_SimplifyIdempotent == spc = "done" => out2 = out1

\* the first application merged and removed gadgets, the second has returned
C8_Witness ==
    /\ spc = "done"
    /\ out1 # <<>>
    /\ Len(out1) < Len(pp_in) \/ out1 # pp_in
    /\ \E i \in 1 .. Len(out1) : out1[i].angle \notin SimpAngles

\* C9: for every Pauli string the angles of the output gadgets with that
\* string sum, modulo the period, to the sum over the input gadgets with that
\* string; two equal-string gadgets with angles a, b (a, b, a+b not 0 or the
\* period) become the single gadget with angle a+b.
C9_AnglesConserved ==
    /\ run = 2 =>
          \A s \in SimpStrings : AngleSum(out1, s) % TwoPi = AngleSum(pp_in, s) % TwoPi
    /\ (/\ run = 2
        /\ Len(pp_in) = 2
        /\ pp_in[1].paulis = pp_in[2].paulis
        /\ ~Collapsed(pp_in[1])
        /\ ~Collapsed(pp_in[2])
        /\ pp_in[1].angle + pp_in[2].angle \notin {0, TwoPi})
       => out1 = << [angle |-> pp_in[1].angle + pp_in[2].angle,
                     paulis |-> pp_in[1].paulis] >>

\* two gadgets merged into one around a commuting gadget
C9_Witness ==
    /\ run = 2
    /\ Len(pp_in) = 3
    /\ Len(out1) = 2
    /\ \E i \in 1 .. 2 : out1[i].angle = pp_in[1].angle + pp_in[3].angle
    /\ pp_in[1].paulis # pp_in[2].paulis
    /\ ~Collapsed(pp_in[1]) /\ ~Collapsed(pp_in[2]) /\ ~Collapsed(pp_in[3])

\* C10: no gadget of the result has an angle congruent to 0 modulo the period.
C10_NoCollapsedOutput ==
    run = 2 => \A i \in 1 .. Len(out1) : out1[i].angle % TwoPi # 0

----------------------------------------------------------------------------
(* Properties of pauli_polynomial_steiner_gray_nc *)

\* the columns of the rz gates of the circuit, in circuit order (the angle of
\* column c is c + 1 up to sign)
Abs(x) == IF x < 0 THEN -x ELSE x

RotatedColumns(c) ==
    LET IsRz(g) == g.g = "rz"
        rz == SelectSeq(c, IsRz)
    IN  [i \in 1 .. Len(rz) |-> Abs(rz[i].ang) - 1]

\* C2: when the synthesis returns, perm_gadgets holds every gadget index
\* exactly once, in the order in which the rotations were emitted.
C2_AllColumnsConsumed ==
    status = "returned" =>
        /\ Len(perm_gadgets) = Len(pp0)
        /\ Range(perm_gadgets) = {c - 1 : c \in 1 .. Len(pp0)}
        /\ perm_gadgets = RotatedColumns(circ_out)

\* the synthesis has returned on three gadgets with a letter each, which the
\* partition put into three buckets: their rotations were emitted last column
\* first
C2_Witness ==
    /\ status = "returned"
    /\ Len(pp0) = 3
    /\ \A c \in 1 .. Len(pp0) : \E q \in Qubits(nq) : pp0[c].paulis[q] # I
    /\ perm_gadgets = <<2, 1, 0>>
    /\ RotatedColumns(circ_out) = <<2, 1, 0>>

\* the calls to identity_recurse or p_recurse that the call that ran last
\* makes on behalf of identity_recurse or p_recurse
RecursiveCalls ==
    {k \in 1 .. Len(calls) :
        /\ calls[k].fn \in {"identity_recurse", "p_recurse"}
        /\ calls[k].caller.fn \in {"identity_recurse", "p_recurse"}}

ProperSubset(a, b) == a \subseteq b /\ a # b

\* C11: every call to identity_recurse or p_recurse that identity_recurse or
\* p_recurse makes passes a subset of the caller's columns and a proper subset
\* of the caller's qubits (on any topology, so on every connected one).
C11_IndexSetsShrink ==
    \A k \in RecursiveCalls :
        /\ Range(calls[k].cols) \subseteq Range(calls[k].caller.cols)
        /\ ProperSubset(Range(calls[k].qubits), Range(calls[k].caller.qubits))

\* on a connected topology identity_recurse has called p_recurse three times,
\* once with some of its columns and not all of them, each time without its
\* row among the qubits
C11_Witness ==
    /\ IsConnected(arch, nq)
    /\ Cardinality(RecursiveCalls) >= 3
    /\ \E k \in RecursiveCalls :
          /\ calls[k].fn = "p_recurse"
          /\ calls[k].caller.fn = "identity_recurse"
          /\ calls[k].cols # <<>>
          /\ Len(calls[k].cols) < Len(calls[k].caller.cols)
          /\ calls[k].row \in Range(calls[k].caller.qubits)
          /\ calls[k].row \notin Range(calls[k].qubits)

----------------------------------------------------------------------------
(* Ladder length on a complete topology *)

OnCompleteTopology == arch = Couplings(nq)

\* C13 as stated: on a complete topology the ladder returned for k >= 1
\* active qubits has length exactly 2 * (k - 1).
C13_LadderLengthTwiceLegs ==
    (LadderReturned /\ OnCompleteTopology) =>
        Len(cnot_ladder) = 2 * (Cardinality(Active(column)) - 1)

\* C13: on a complete topology the ladder returned for k >= 1 active qubits
\* has length exactly k - 1: one entry for each of the k - 1 tree edges, and
\* never more while it is being built.
C13_LadderLengthOnComplete ==
    (OnCompleteTopology /\ pc \in {"bfs", "done"} /\ Active(column) # {}) =>
        /\ Cardinality(mst) = Cardinality(Active(column)) - 1
        /\ Len(cnot_ladder) <= Cardinality(Active(column)) - 1
        /\ LadderReturned =>
              Len(cnot_ladder) = Cardinality(Active(column)) - 1

\* a ladder returned on the complete topology for three active qubits or more
C13_Witness ==
    /\ LadderReturned
    /\ OnCompleteTopology
    /\ Cardinality(Active(column)) >= 3
    /\ Len(cnot_ladder) = Cardinality(Active(column)) - 1

----------------------------------------------------------------------------
(* Properties of two_qubit_count *)

Legs(col) == {q \in DOMAIN col : col[q] = 1}

FindMinimalReturned == pc = "bfs" /\ pending = {} /\ queue = <<>>

\* C12: for an indicator vector with zero or one active qubit the ladder of
\* find_minimal_cx_assignment is empty, on every topology, and two_qubit_count
\* returns 0 for a gadget with at most one leg.
C12_NoLadderUpToOneLeg ==
    (called_by # "none" /\ Cardinality(Legs(column)) <= 1) =>
        /\ pc = "bfs" => mst = {}
        /\ cnot_ladder = <<>>
        /\ pc = "counted" => cnot_amount = 0

\* find_minimal_cx_assignment returns for the one leg on the last of three
\* qubits, with a count that is not 0 in the shared dictionary
C12_Witness ==
    /\ FindMinimalReturned
    /\ nq = CountQubits
    /\ Legs(column) = {nq - 1}
    /\ visited = {nq - 1}
    /\ \E id \in DOMAIN leg_cache : leg_cache[id] > 0

RECURSIVE SumOf(_, _)
SumOf(dict, ids) ==
    IF ids = <<>> THEN 0 ELSE dict[Head(ids)] + SumOf(dict, Tail(ids))

\* C17: every value in a dictionary is twice the length of the ladder any run
\* of find_minimal_cx_assignment returns for that mask; a gadget's call
\* returns that value whether it finds it in the dictionary or not, and a
\* polynomial's call returns the sum of its gadgets' values.
C17_CacheTransparent ==
    called_by # "none" =>
        /\ \A id \in DOMAIN own_cache \cap DOMAIN leg_cache :
              own_cache[id] = leg_cache[id]
        /\ (FindMinimalReturned /\ col_id(column, nq) \in DOMAIN leg_cache) =>
              leg_cache[col_id(column, nq)] = 2 * Len(cnot_ladder)
        /\ pc = "counted" =>
              /\ col_id(column, nq) \in DOMAIN CacheInUse
              /\ cnot_amount = CacheInUse[col_id(column, nq)]
              /\ col_id(column, nq) \in DOMAIN leg_cache =>
                    cnot_amount = leg_cache[col_id(column, nq)]
        /\ pc \in {"poly", "returned"} =>
              /\ \A i \in 1 .. Len(counted) : counted[i] \in DOMAIN CacheInUse
              /\ two_qubit_total = SumOf(CacheInUse, counted)

\* a polynomial of two gadgets with the same mask, counted with the shared
\* dictionary: 6 CX gates each
C17_Witness ==
    /\ pc = "returned"
    /\ shared
    /\ Len(counted) = 2
    /\ counted[1] = counted[2]
    /\ two_qubit_total = 12
    /\ Cardinality(DOMAIN leg_cache) >= 3

----------------------------------------------------------------------------
(* Merges of propagate_phase_gadegts *)

\* an iteration of the loop of propagate_phase_gadegts that changed an angle
\* or cleared converged
MergeStep ==
    /\ spc = "for"
    /\ idx' = idx + 1
    /\ remaining_poly' # remaining_poly \/ (converged /\ ~converged')

\* gadget j (0-based) is the nearest one to the right of gadget i with i's
\* Pauli string, and the gadgets between them commute with gadget i
NearestOverCommuting(i, j, poly) ==
    /\ poly[j + 1].paulis = poly[i + 1].paulis
    /\ \A k \in i + 1 .. j - 1 :
          /\ poly[k + 1].paulis # poly[i + 1].paulis
          /\ commutes(poly[i + 1], poly[k + 1])

\* C14: whenever a pass adds the angle of gadget i to a gadget j > i and
\* zeroes gadget i, gadget j is the nearest gadget to the right of i with an
\* identical Pauli string and every gadget strictly between them commutes with
\* gadget i; nothing else in the working list changes.
C14_NoMergeAcrossNonCommuting ==
    [][MergeStep =>
          \E j \in idx + 1 .. Len(remaining_poly) - 1 :
              /\ NearestOverCommuting(idx, j, remaining_poly)
              /\ remaining_poly' =
                    [remaining_poly EXCEPT
                        ![j + 1].angle = @ + remaining_poly[idx + 1].angle,
                        ![idx + 1].angle = 0]]_vars

\* the first gadget of three has been merged into the third over a second
\* one with another Pauli string
C14_Witness ==
    /\ spc = "for"
    /\ run = 1
    /\ idx = 1
    /\ ~converged
    /\ Len(remaining_poly) = 3
    /\ remaining_poly[1].angle = 0
    /\ remaining_poly[3].paulis = remaining_poly[1].paulis
    /\ remaining_poly[2].paulis # remaining_poly[1].paulis
    /\ \E q \in Qubits(SimpQubits) :
          /\ remaining_poly[2].paulis[q] # I
          /\ remaining_poly[1].paulis[q] # I
          /\ remaining_poly[2].paulis[q] # remaining_poly[1].paulis[q]
    /\ pp_in[1].angle # 0
    /\ remaining_poly[3].angle = pp_in[1].angle + pp_in[3].angle

(***************************************************************************)
(* The neighbour test of p_recurse                                         *)
(***************************************************************************)

\* a call of p_recurse that is about to look for a neighbour of row
NeighbourSearch(call) ==
    /\ call.fn = "p_recurse"
    /\ call.cols # <<>>
    /\ call.qubits # <<>>

\* C15: on a connected topology every call of p_recurse with columns and
\* qubits to use finds a neighbour of row in the subgraph of qubits_to_use and
\* row, and the synthesis never aborts
C15_NeighbourAlwaysFound ==
    IsConnected(arch, nq) =>
        /\ status \notin {AssertionError, TypeError, ValueError}
        /\ (status = "running" /\ stack # <<>> /\ NeighbourSearch(Top))
              => neighbours(arch, Range(Top.qubits) \cup {Top.row}, Top.row) # {}

(***************************************************************************)
(* The gadgets apply_rotation rotates                                      *)
(***************************************************************************)

\* apply_rotation is about to emit rotations with a pending type of X, Y or Z
RotationPending ==
    /\ status = "running"
    /\ stack # <<>>
    /\ Top.fn = "apply_rotation"
    /\ Top.rec_type \in {X, Y, Z}

\* gadget col of poly has the single leg rec_type on row
SingleLeg(poly, col, row, rec_type) ==
    \A q \in Qubits(nq) :
       getitem(poly[col + 1], q) = (IF q = row THEN rec_type ELSE I)

\* C16: when apply_rotation emits the rotation of column col on row with
\* pending type rec_type in {X, Y, Z}, gadget col of the working polynomial
\* is rec_type on row and I on every other qubit
C16_RotatedGadgetIsSingleLeg ==
    RotationPending
      => \A i \in 1 .. Len(Top.cols) :
            SingleLeg(pp, Top.cols[i], Top.row, Top.rec_type)

\* on more than one qubit apply_rotation is about to rotate two gadgets with
\* a basis change, after the partition has set a third gadget apart
C16_Witness ==
    /\ RotationPending
    /\ nq >= 2
    /\ Len(pp0) = 3
    /\ Len(Top.cols) = 2
    /\ Top.rec_type # Z
    /\ \A i \in 1 .. Len(Top.cols) :
          SingleLeg(pp, Top.cols[i], Top.row, Top.rec_type)

====
